---------------------------- MODULE Spec2Model ----------------------------
(***************************************************************************)
(* Model of src/public/script.js (Urban Dictionary lookup widget).         *)
(*                                                                         *)
(* The script binds one async handler to the submit event of the search    *)
(* form.  The handler runs synchronously up to `await fetchDefinition`,    *)
(* is suspended while fetch() and response.json() are outstanding, and     *)
(* runs synchronously again (try / catch / finally) when the awaited       *)
(* promise settles.  Each synchronous stretch is one action.  Microtasks    *)
(* run before the next task: while a continuation is queued only a script  *)
(* that dispatches submit events back to back can run the handler again.   *)
(*                                                                         *)
(* Text is a sequence of chunks: a chunk is either one character of data   *)
(* ("a", " ", "[", "]") or one literal of the script ("Example: ").  A     *)
(* character outside printable ASCII is written by its code unit, as in    *)
(* "<U+00A0>" for the no-break space.                                      *)
(* Str flattens a text to the string the DOM would hold.                   *)
(***************************************************************************)
EXTENDS Naturals, Sequences, FiniteSets, TLC

VARIABLES
  appConfigKey,   \* window.APP_CONFIG?.RAPIDAPI_KEY, read once at load
  termInput,      \* termInput.value at the latest submit event
  btnDisabled,    \* searchBtn.disabled
  status,         \* statusEl: [message: text, className: set of classes]
  prevClassName,  \* statusEl.className as the latest setStatus call found it
  result,         \* resultEl and its five text slots
  termFocused,    \* termInput.focus() has moved the focus to the text field
  pending,        \* handler invocations suspended at the await with their
                  \* request outstanding, in issue order
  queued,         \* handler invocations suspended at the await whose promise
                  \* line 65 has rejected: their continuations are microtasks
  attempt         \* locals of the latest handler invocation: term, data, error

vars == <<appConfigKey, termInput, btnDisabled, status, prevClassName, result,
          termFocused, pending, queued, attempt>>

-----------------------------------------------------------------------------
(* Bounds of the model *)

MaxLen == 1       \* longest value typed into the text field (PaddedInput aside)
MaxList == 2      \* longest `list` array in a provider response
MaxPending == 2   \* outstanding requests the model keeps track of
MaxQueued == 1    \* continuations waiting in the microtask queue

-----------------------------------------------------------------------------
(* JavaScript values that occur in the provider's JSON and in the config *)

Undefined == [t |-> "undefined", s |-> <<>>, n |-> 0]
JNull == [t |-> "null", s |-> <<>>, n |-> 0]
JStr(s) == [t |-> "string", s |-> s, n |-> 0]
JNum(n) == [t |-> "number", s |-> <<>>, n |-> n]

\* ToBoolean: undefined, null, "" and 0 are falsy
Truthy(v) == \/ v.t = "string" /\ v.s # <<>>
             \/ v.t = "number" /\ v.n # 0

\* a || b
OrElse_Nullish(a, b) == IF a.t \in {"undefined", "null"} THEN b ELSE a
OrElse(a, b) == IF Truthy(a) THEN a ELSE b

DigitChars == <<"0", "1", "2", "3", "4", "5", "6", "7", "8", "9">>

RECURSIVE Digits(_)
\* decimal digits of a natural number (Number -> String)
Digits(n) == IF n < 10 THEN <<DigitChars[n + 1]>>
                       ELSE Digits(n \div 10) \o <<DigitChars[(n % 10) + 1]>>

\* `${v}` : template-literal conversion of a value to text
Template(v) == CASE v.t = "string" -> v.s
                 [] v.t = "number" -> Digits(v.n)
                 [] v.t = "null" -> <<"null">>
                 [] OTHER -> <<"undefined">>

RECURSIVE Str(_)
\* the DOM string of a text
Str(text) == IF text = <<>> THEN "" ELSE Head(text) \o Str(Tail(text))

-----------------------------------------------------------------------------
(* Pure functions of the script *)

PLACEHOLDER_KEY == <<"YOUR_RAPIDAPI_KEY">>

\* const RAPIDAPI_KEY = window.APP_CONFIG?.RAPIDAPI_KEY || "YOUR_RAPIDAPI_KEY"
RAPIDAPI_KEY == OrElse(appConfigKey, JStr(PLACEHOLDER_KEY))

\* the guard of line 115
KeyMissing_OnlyFalsy(key) == ~Truthy(key)
KeyMissing(key) == ~Truthy(key) \/ key = JStr(PLACEHOLDER_KEY)

\* characters String.prototype.trim removes: WhiteSpace and LineTerminator
\* of ECMAScript (TAB, LF, VT, FF, CR, SP, NBSP, the Unicode space
\* separators, LS, PS, BOM)
Whitespace ==
  {"\t", "\n", "<U+000B>", "\f", "\r", " ", "<U+00A0>", "<U+1680>",
   "<U+2000>", "<U+2001>", "<U+2002>", "<U+2003>", "<U+2004>", "<U+2005>",
   "<U+2006>", "<U+2007>", "<U+2008>", "<U+2009>", "<U+200A>", "<U+2028>",
   "<U+2029>", "<U+202F>", "<U+205F>", "<U+3000>", "<U+FEFF>"}

RECURSIVE TrimStart(_)
TrimStart(s) == IF s # <<>> /\ Head(s) \in Whitespace THEN TrimStart(Tail(s)) ELSE s

RECURSIVE TrimEnd(_)
TrimEnd(s) == IF s # <<>> /\ s[Len(s)] \in Whitespace
                THEN TrimEnd(SubSeq(s, 1, Len(s) - 1)) ELSE s

\* termInput.value.trim()
trim_None(s) == s
trim(s) == TrimEnd(TrimStart(s))

\* UTF-16 surrogate code units, U+D800..U+DBFF and U+DC00..U+DFFF
HexDigits == {"0", "1", "2", "3", "4", "5", "6", "7",
              "8", "9", "A", "B", "C", "D", "E", "F"}
HighSurrogates ==
  {"<U+D" \o h \o m \o l \o ">" : h \in {"8", "9", "A", "B"}, m \in HexDigits, l \in HexDigits}
LowSurrogates ==
  {"<U+D" \o h \o m \o l \o ">" : h \in {"C", "D", "E", "F"}, m \in HexDigits, l \in HexDigits}

\* encodeURIComponent(term) returns: every surrogate of the term is half of
\* a pair.  On a lone surrogate it throws URIError("URI malformed").
Encodable(s) ==
  \A k \in 1..Len(s) :
    /\ s[k] \in HighSurrogates => (k < Len(s) /\ s[k + 1] \in LowSurrogates)
    /\ s[k] \in LowSurrogates => (k > 1 /\ s[k - 1] \in HighSurrogates)

\* setStatus(message, type): the banner is overwritten in full
setStatus_KeepClass(message, type) ==
  [message |-> message,
   className |-> status.className \cup (IF type # "" THEN {type} ELSE {})]
setStatus(message, type) ==
  [message |-> message,
   className |-> {"status"} \cup (IF type # "" THEN {type} ELSE {})]

\* clearResult(): hide the article and blank its five slots
clearResult ==
  [hidden |-> TRUE, term |-> <<>>, definition |-> <<>>, example |-> <<>>,
   author |-> <<>>, votes |-> <<>>]

\* a completion of a stretch of code: normally, or by a thrown error
Normal(v) == [thrown |-> FALSE, value |-> v, message |-> <<>>]
Throw(v, m) == [thrown |-> TRUE, value |-> v, message |-> m]

\* cleanText(text): "" for a falsy value, else text.replace(/\[|\]/g, "");
\* a truthy value that is no string has no replace method (TypeError)
cleanText(text) ==
  IF ~Truthy(text) THEN Normal(<<>>)
  ELSE IF text.t = "string"
    THEN Normal(SelectSeq(text.s, LAMBDA c : c \notin {"[", "]"}))
    ELSE Throw(<<>>, <<"text.replace is not a function">>)

\* showResult(item), started on panel p: the panel it leaves behind, and
\* the error it throws when a statement fails part-way
showResult(p, item) ==
  IF item.t # "object"
    THEN Throw(p, <<"Cannot read properties of ", item.t, " (reading 'word')">>)
    ELSE
      LET w == cleanText(OrElse(item.word, JStr(<<"Unknown term">>)))
          p1 == [p EXCEPT !.term = w.value]
          d == cleanText(OrElse(item.definition, JStr(<<"No definition available.">>)))
          p2 == [p1 EXCEPT !.definition = d.value]
          e == cleanText(OrElse(item.example, JStr(<<>>)))
          p3 == [p2 EXCEPT !.example =
                   IF e.value # <<>> THEN <<"Example: ">> \o e.value
                                     ELSE <<"Example: none provided.">>]
          p4 == [p3 EXCEPT !.author =
                   <<"Author: ">> \o Template(OrElse(item.author, JStr(<<"unknown">>)))]
          p5 == [p4 EXCEPT !.votes =
                   <<"Votes: ">> \o Template(OrElse(item.thumbs_up, JNum(0)))
                   \o <<" up / ">> \o Template(OrElse(item.thumbs_down, JNum(0)))
                   \o <<" down">>]
      IN  IF w.thrown THEN Throw(p, w.message)
          ELSE IF d.thrown THEN Throw(p1, d.message)
          ELSE IF e.thrown THEN Throw(p2, e.message)
          ELSE Normal([p5 EXCEPT !.hidden = FALSE])

-----------------------------------------------------------------------------
(* Inputs: what the user types and what the provider answers *)

\* values typed into the text field: strings over Chars of length <= MaxLen,
\* one padded term, and one term that holds a lone surrogate
Chars == {"a", " ", "<U+00A0>"}

RECURSIVE StringsUpTo(_)
StringsUpTo(n) == IF n = 0 THEN {<<>>}
                  ELSE LET shorter == StringsUpTo(n - 1)
                       IN  shorter \cup {Append(s, c) : s \in shorter, c \in Chars}

\* a term with whitespace of both kinds around it
PaddedInput == <<" ", "a", "<U+00A0>">>

\* a term encodeURIComponent cannot encode
UnpairedInput == <<"<U+D800>">>

Inputs == StringsUpTo(MaxLen) \cup {PaddedInput, UnpairedInput}

\* values of window.APP_CONFIG?.RAPIDAPI_KEY: no config object or no key,
\* an empty key, the placeholder itself, a real key
ConfigKeys == {Undefined, JStr(<<>>), JStr(PLACEHOLDER_KEY), JStr(<<"k", "1">>)}

\* an element of `list`; list[0] of an empty array is undefined
Entry(w, d, e, a, up, down) ==
  [t |-> "object", word |-> w, definition |-> d, example |-> e, author |-> a,
   thumbs_up |-> up, thumbs_down |-> down]
NoEntry(t) ==
  [t |-> t, word |-> Undefined, definition |-> Undefined, example |-> Undefined,
   author |-> Undefined, thumbs_up |-> Undefined, thumbs_down |-> Undefined]

\* entries a response can hold: every field absent; brackets in every text
\* field; an example that is only brackets, an author, a zero vote count;
\* the entry of the specification's example; and entries whose word,
\* definition or example is a number instead of a string
BareEntry == Entry(Undefined, Undefined, Undefined, Undefined, Undefined, Undefined)
BracketEntry ==
  Entry(JStr(<<"[", "a", "]">>), JStr(<<"a", " ", "[", "b", "]">>),
        JStr(<<"[", "a", "]">>), JStr(<<"[", "a", "]">>), JNum(12), JNum(3))
PlainEntry ==
  Entry(JStr(<<"a">>), Undefined, JStr(<<"[", "]">>), JStr(<<"a">>), Undefined, JNum(0))
\* {word: "foo", definition: "a [thing]", example: "", author: "", thumbs_up: 5}
FooEntry ==
  Entry(JStr(<<"f", "o", "o">>), JStr(<<"a", " ", "[", "t", "h", "i", "n", "g", "]">>),
        JStr(<<>>), JStr(<<>>), JNum(5), Undefined)
BadWordEntry == Entry(JNum(7), Undefined, Undefined, Undefined, Undefined, Undefined)
BadDefinitionEntry ==
  Entry(JStr(<<"[", "a", "]">>), JNum(7), Undefined, Undefined, Undefined, Undefined)
BadExampleEntry ==
  Entry(JStr(<<"[", "a", "]">>), JStr(<<"a", " ", "[", "b", "]">>), JNum(7),
        Undefined, Undefined, Undefined)

Entries ==
  {BareEntry, BracketEntry, PlainEntry, FooEntry, BadWordEntry, BadDefinitionEntry,
   BadExampleEntry}

\* what the first element of `list` can be, and what can follow it
FirstItems == Entries \cup {NoEntry("null")}
LaterItems == {Entry(JStr(<<"b">>), JStr(<<"b">>), JStr(<<"b">>), JStr(<<"b">>),
                     JNum(1), JNum(1))}

RECURSIVE Tails(_)
Tails(n) == IF n = 0 THEN {<<>>}
            ELSE LET shorter == Tails(n - 1)
                 IN  shorter \cup {Append(s, x) : s \in shorter, x \in LaterItems}

Lists == {<<>>} \cup {<<x>> \o rest : x \in FirstItems, rest \in Tails(MaxList - 1)}

\* the value response.json() resolves to: null, an object without `list`,
\* an object with a `list` array
DataNull == [t |-> "null", hasList |-> FALSE, list |-> <<>>]
DataNoList == [t |-> "object", hasList |-> FALSE, list |-> <<>>]
DataList(l) == [t |-> "object", hasList |-> TRUE, list |-> l]

Datas == {DataNull, DataNoList} \cup {DataList(l) : l \in Lists}

\* HTTP statuses the provider answers with; response.ok is 200..299
Statuses == {200, 299, 304, 404, 500}
ResponseOk(st) == st >= 200 /\ st <= 299

\* messages of the errors fetch() and response.json() reject with
FetchErrors == {<<"Failed to fetch">>}
JsonErrors == {<<"Unexpected end of JSON input">>}

-----------------------------------------------------------------------------
(* The submit handler *)

\* what `await fetchDefinition(term)` produced: nothing yet, a value, an error
NoAwait == [kind |-> "none", data |-> DataNull, message |-> <<>>, httpStatus |-> 0]
Resolved(data) == [kind |-> "resolved", data |-> data, message |-> <<>>, httpStatus |-> 0]
Rejected(m, st) == [kind |-> "rejected", data |-> DataNull, message |-> m, httpStatus |-> st]

RemoveAt(q, i) == SubSeq(q, 1, i - 1) \o SubSeq(q, i + 1, Len(q))

\* lines 141-143: the catch block
Catch(panel, message) ==
  [status |-> setStatus(<<"Unable to fetch results. ">> \o message, "error"),
   result |-> panel]

\* lines 106-120: a submission turned down by validation; the empty-term
\* branch also calls termInput.focus() (line 110)
Reject_Disabling(term, message, refocus) ==
  /\ result' = clearResult
  /\ status' = setStatus(message, "error")
  /\ prevClassName' = status.className
  /\ termFocused' = (refocus \/ termFocused)
  /\ btnDisabled' = TRUE
  /\ attempt' = [phase |-> "rejected", term |-> term, awaited |-> NoAwait]
  /\ UNCHANGED <<pending, queued>>
Reject(term, message, refocus) ==
  /\ result' = clearResult
  /\ status' = setStatus(message, "error")
  /\ prevClassName' = status.className
  /\ termFocused' = (refocus \/ termFocused)
  /\ attempt' = [phase |-> "rejected", term |-> term, awaited |-> NoAwait]
  /\ UNCHANGED <<btnDisabled, pending, queued>>

\* lines 122-128: disable the button, announce the search, clear the panel,
\* call fetchDefinition(term) and suspend at the await.  fetchDefinition
\* issues fetch(), unless encodeURIComponent(term) throws at line 65: then
\* no fetch() is issued and the awaited promise is already rejected, so the
\* continuation of the handler is a microtask.
BeginLookup_NoClear(term) ==
  /\ btnDisabled' = TRUE
  /\ status' = setStatus(<<"Searching for \"">> \o term \o <<"\"...">>, "")
  /\ prevClassName' = status.className
  /\ attempt' = [phase |-> "pending", term |-> term, awaited |-> NoAwait]
  /\ IF Encodable(term)
       THEN /\ Len(pending) < MaxPending
            /\ pending' = Append(pending, [term |-> term, stage |-> "fetch"])
            /\ UNCHANGED queued
       ELSE /\ Len(queued) < MaxQueued
            /\ queued' = Append(queued, term)
            /\ UNCHANGED pending
  /\ UNCHANGED <<result, termFocused>>
BeginLookup(term) ==
  /\ btnDisabled' = TRUE
  /\ status' = setStatus(<<"Searching for \"">> \o term \o <<"\"...">>, "")
  /\ prevClassName' = status.className
  /\ result' = clearResult
  /\ attempt' = [phase |-> "pending", term |-> term, awaited |-> NoAwait]
  /\ IF Encodable(term)
       THEN /\ Len(pending) < MaxPending
            /\ pending' = Append(pending, [term |-> term, stage |-> "fetch"])
            /\ UNCHANGED queued
       ELSE /\ Len(queued) < MaxQueued
            /\ queued' = Append(queued, term)
            /\ UNCHANGED pending
  /\ UNCHANGED termFocused

\* lines 99-128: the submit handler up to its await.  It runs on every
\* submit event of the form and does not look at searchBtn.disabled, so it
\* also runs while earlier invocations are suspended.
Submit(input) ==
  /\ termInput' = input
  /\ LET term == trim(input)
     IN  IF term = <<>>
           THEN Reject(term, <<"Please enter a term to search.">>, TRUE)
         ELSE IF KeyMissing(RAPIDAPI_KEY)
           THEN Reject(term, <<"Add your RapidAPI key in .env before searching.">>, FALSE)
         ELSE BeginLookup(term)
  /\ UNCHANGED appConfigKey

\* line 131: !data.list || data.list.length === 0
NoResults(data) == ~data.hasList \/ Len(data.list) = 0

\* data.list[0]
FirstEntry_Last(list) == IF list = <<>> THEN NoEntry("undefined") ELSE list[Len(list)]
FirstEntry(list) == IF list = <<>> THEN NoEntry("undefined") ELSE list[1]

\* lines 127-143: the try block after the await, and the catch block
TryCatch(term, awaited) ==
  IF awaited.kind = "rejected" THEN Catch(result, awaited.message)
  ELSE IF awaited.data.t = "null"
    THEN Catch(result, <<"Cannot read properties of null (reading 'list')">>)
  ELSE IF NoResults(awaited.data)
    THEN [status |-> setStatus(<<"No results found for \"">> \o term \o <<"\".">>, "error"),
          result |-> result]
  ELSE LET shown == showResult(result, FirstEntry(awaited.data.list))
       IN  IF shown.thrown THEN Catch(shown.value, shown.message)
           ELSE [status |-> setStatus(<<"Showing first definition for \"">> \o term
                                      \o <<"\".">>, "success"),
                 result |-> shown.value]

\* lines 127-147: try / catch, then the finally block re-enables the button
Resume_EnableInTry(term, awaited) ==
  LET r == TryCatch(term, awaited)
  IN  [status |-> r.status, result |-> r.result,
       disabled |-> IF "success" \in r.status.className THEN FALSE ELSE btnDisabled]
Resume(term, awaited) ==
  LET r == TryCatch(term, awaited)
  IN  [status |-> r.status, result |-> r.result, disabled |-> FALSE]

\* the awaited promise of invocation i settles and its handler runs to the
\* end.  The settlement arrives in a task of its own, so no microtask is
\* waiting when it does.
Complete_Retry(i, awaited) ==
  LET r == Resume(pending[i].term, awaited)
      again == awaited.kind = "rejected"
  IN  /\ status' = r.status
      /\ prevClassName' = status.className
      /\ result' = r.result
      /\ btnDisabled' = (IF again THEN TRUE ELSE r.disabled)
      /\ pending' = IF again THEN [pending EXCEPT ![i].stage = "fetch"]
                             ELSE RemoveAt(pending, i)
      /\ attempt' = [phase |-> "done", term |-> pending[i].term, awaited |-> awaited]
      /\ UNCHANGED <<appConfigKey, termInput, termFocused, queued>>
Complete(i, awaited) ==
  LET r == Resume(pending[i].term, awaited)
  IN  /\ status' = r.status
      /\ prevClassName' = status.className
      /\ result' = r.result
      /\ btnDisabled' = r.disabled
      /\ pending' = RemoveAt(pending, i)
      /\ attempt' = [phase |-> "done", term |-> pending[i].term, awaited |-> awaited]
      /\ UNCHANGED <<appConfigKey, termInput, termFocused, queued>>

\* the microtask queue is drained: the handler whose promise line 65
\* rejected runs its catch block and its finally block
EncodeRejects ==
  /\ queued # <<>>
  /\ LET term == Head(queued)
         awaited == Rejected(<<"URI malformed">>, 0)
         r == Resume(term, awaited)
     IN  /\ status' = r.status
         /\ prevClassName' = status.className
         /\ result' = r.result
         /\ btnDisabled' = r.disabled
         /\ queued' = Tail(queued)
         /\ attempt' = [phase |-> "done", term |-> term, awaited |-> awaited]
         /\ UNCHANGED <<appConfigKey, termInput, termFocused, pending>>

\* fetch() rejects: the transport failed
FetchRejects(i, m) ==
  /\ queued = <<>>
  /\ pending[i].stage = "fetch"
  /\ Complete(i, Rejected(m, 0))

\* fetch() resolves with a response; lines 75-79
FetchResponds(i, st) ==
  /\ queued = <<>>
  /\ pending[i].stage = "fetch"
  /\ IF ResponseOk(st)
       THEN /\ pending' = [pending EXCEPT ![i].stage = "json"]
            /\ UNCHANGED <<appConfigKey, termInput, termFocused, btnDisabled, status,
                           prevClassName, result, queued, attempt>>
       ELSE Complete(i, Rejected(<<"Request failed with status ">> \o Digits(st), st))

\* response.json() rejects: the body is no JSON
JsonRejects(i, m) ==
  /\ queued = <<>>
  /\ pending[i].stage = "json"
  /\ Complete(i, Rejected(m, 0))

\* response.json() resolves with the parsed body
JsonResolves(i, data) ==
  /\ queued = <<>>
  /\ pending[i].stage = "json"
  /\ Complete(i, Resolved(data))

-----------------------------------------------------------------------------
(* The page after the script has loaded *)

Init ==
  /\ appConfigKey \in ConfigKeys
  /\ termInput = <<>>
  /\ btnDisabled = FALSE
  /\ status = [message |-> <<>>, className |-> {"status"}]
  /\ prevClassName = {"status"}
  /\ result = clearResult
  /\ termFocused = FALSE
  /\ pending = <<>>
  /\ queued = <<>>
  /\ attempt = [phase |-> "none", term |-> <<>>, awaited |-> NoAwait]

Next ==
  \/ \E input \in Inputs : Submit(input)
  \/ EncodeRejects
  \/ \E i \in 1..Len(pending), m \in FetchErrors : FetchRejects(i, m)
  \/ \E i \in 1..Len(pending), st \in Statuses : FetchResponds(i, st)
  \/ \E i \in 1..Len(pending), m \in JsonErrors : JsonRejects(i, m)
  \/ \E i \in 1..Len(pending), data \in Datas : JsonResolves(i, data)

Spec == Init /\ [][Next]_vars

-----------------------------------------------------------------------------
(* Vocabulary of the properties *)

AllWhitespace(s) == \A k \in 1..Len(s) : s[k] \in Whitespace

\* a submit event has been handled
Submitted == attempt.phase # "none"

\* the latest handler invocation has run to its end after its await
Done == attempt.phase = "done"

\* the configured access key is absent, empty, or the placeholder
CredentialMissing ==
  \/ appConfigKey.t # "string"
  \/ appConfigKey.s = <<>>
  \/ Str(appConfigKey.s) = "YOUR_RAPIDAPI_KEY"

PanelBlank ==
  /\ result.term = <<>>
  /\ result.definition = <<>>
  /\ result.example = <<>>
  /\ result.author = <<>>
  /\ result.votes = <<>>

PanelCleared == result.hidden /\ PanelBlank

ErrorStatus == status.className = {"status", "error"}
SuccessStatus == status.className = {"status", "success"}

NoBrackets(text) == \A k \in 1..Len(text) : text[k] \notin {"[", "]"}

\* an entry of the documented shape: word, definition and example are
\* strings or absent
WellFormed(e) ==
  /\ e.t = "object"
  /\ e.word.t \in {"string", "undefined"}
  /\ e.definition.t \in {"string", "undefined"}
  /\ e.example.t \in {"string", "undefined"}

-----------------------------------------------------------------------------
(* Properties *)

\* C1: in every reachable state at most one lookup request is in flight.
C1_AtMostOneInFlight == Len(pending) <= 1

\* the submit handler has run in this step: it ended at validation or it
\* suspended at its await (a settlement step leaves phase "done", a
\* response that only advances fetchDefinition changes none of these)
HandlerRan ==
  /\ attempt'.phase \in {"rejected", "pending"}
  /\ <<termInput, status, prevClassName, result, attempt>>' #
       <<termInput, status, prevClassName, result, attempt>>

\* C2: a step of the submit handler on an input that is empty or only
\* whitespace issues no network call, leaves the panel hidden with its five
\* fields blank, and sets an error status.
C2_BlankInputRejected ==
  [][(HandlerRan /\ AllWhitespace(termInput')) =>
       (pending' = pending /\ PanelCleared' /\ ErrorStatus')]_vars

\* an input of one no-break space, turned down with a key configured
C2_Witness ==
  /\ attempt.phase = "rejected"
  /\ termInput = <<"<U+00A0>">>
  /\ appConfigKey = JStr(<<"k", "1">>)
  /\ PanelCleared
  /\ Str(status.message) = "Please enter a term to search."

\* C3: a step of the submit handler on a non-empty term while the access
\* key is absent or the placeholder issues no network call, leaves the
\* panel cleared and sets an error status.
C3_MissingKeyRejected ==
  [][(HandlerRan /\ ~AllWhitespace(termInput') /\ CredentialMissing) =>
       (pending' = pending /\ PanelCleared' /\ ErrorStatus')]_vars

C3_Witness ==
  /\ attempt.phase = "rejected"
  /\ termInput = PaddedInput
  /\ appConfigKey = JStr(PLACEHOLDER_KEY)
  /\ pending = <<>>
  /\ Str(status.message) = "Add your RapidAPI key in .env before searching."

\* C4: every step in which a suspended handler runs to its end (with a
\* result, an empty list, a rejection, or an error thrown while the
\* response is processed or rendered) leaves the trigger enabled.
C4_ReenabledOnEveryExit ==
  [][(Len(pending') < Len(pending) \/ Len(queued') < Len(queued)) => ~btnDisabled']_vars

\* an error thrown while rendering a non-empty list, trigger enabled
C4_Witness ==
  /\ Done
  /\ attempt.awaited.kind = "resolved"
  /\ attempt.awaited.data.hasList
  /\ attempt.awaited.data.list # <<>>
  /\ Str(status.message) = "Unable to fetch results. text.replace is not a function"
  /\ ~btnDisabled

\* C5: disables and enables of the trigger alternate: a request is issued
\* only with the trigger enabled and disables it, a handler ends only with
\* the trigger disabled and enables it, nothing else toggles it, and the
\* trigger is disabled exactly while a request is in flight.
C5_DisableEnableBalanced ==
  [][/\ (Len(pending') > Len(pending)) => (~btnDisabled /\ btnDisabled')
     /\ (Len(pending') < Len(pending)) => (btnDisabled /\ ~btnDisabled')
     /\ (btnDisabled' # btnDisabled) => (Len(pending') # Len(pending))
     /\ btnDisabled' = (pending' # <<>>)]_vars

\* C6: whenever the status shows an error (empty input, missing
\* credential, no results, failed lookup) the trigger is enabled.
C6_ErrorLeavesTriggerEnabled == ErrorStatus => (~btnDisabled /\ pending = <<>>)

\* C7: when the lookup for term t resolves with an empty list, the panel
\* stays hidden with nothing rendered and the status is the error
\* `No results found for "t".`
C7_EmptyListReported ==
  (Done /\ attempt.awaited.kind = "resolved" /\ attempt.awaited.data = DataList(<<>>)) =>
    /\ PanelCleared
    /\ ErrorStatus
    /\ Str(status.message) = "No results found for \"" \o Str(attempt.term) \o "\"."

\* C8: when the lookup for term t resolves with a list whose first entry
\* has the documented shape, the panel shows exactly that first entry, is
\* visible, and the status is the success `Showing first definition for "t".`
C8_FirstEntryShown ==
  (/\ Done
   /\ attempt.awaited.kind = "resolved"
   /\ attempt.awaited.data.hasList
   /\ attempt.awaited.data.list # <<>>
   /\ WellFormed(attempt.awaited.data.list[1])) =>
    /\ ~result.hidden
    /\ result = showResult(clearResult, attempt.awaited.data.list[1]).value
    /\ SuccessStatus
    /\ Str(status.message) =
         "Showing first definition for \"" \o Str(attempt.term) \o "\"."

\* a list of two different entries, the first one on display
C8_Witness ==
  /\ Done
  /\ attempt.awaited.kind = "resolved"
  /\ Len(attempt.awaited.data.list) = 2
  /\ attempt.awaited.data.list[1] = BracketEntry
  /\ attempt.awaited.data.list[2].t = "object"
  /\ Str(result.term) = "a"
  /\ Str(result.definition) = "a b"
  /\ termInput = PaddedInput
  /\ Str(status.message) = "Showing first definition for \"a\"."

\* C9: when the lookup rejects (transport failure, non-2xx status, body
\* that does not parse) the status is an error whose message ends with the
\* failure's message, the panel stays hidden and the trigger is enabled.
C9_RejectionReported ==
  (Done /\ attempt.awaited.kind = "rejected") =>
    /\ ErrorStatus
    /\ Str(status.message) = "Unable to fetch results. " \o Str(attempt.awaited.message)
    /\ (attempt.awaited.httpStatus = 500 =>
          Str(status.message) = "Unable to fetch results. Request failed with status 500")
    /\ (attempt.awaited.httpStatus = 404 =>
          Str(status.message) = "Unable to fetch results. Request failed with status 404")
    /\ PanelCleared
    /\ ~btnDisabled

\* C10: whenever an entry is on display, none of the term, definition,
\* example and author texts contains a '[' or ']'.
C10_ShownTextSanitized ==
  ~result.hidden =>
    /\ NoBrackets(result.term)
    /\ NoBrackets(result.definition)
    /\ NoBrackets(result.example)
    /\ NoBrackets(result.author)

\* the latest handler to run to its end rendered the first entry of the
\* list its lookup resolved with, and that entry is on display
Shown ==
  /\ Done
  /\ attempt.awaited.kind = "resolved"
  /\ attempt.awaited.data.hasList
  /\ attempt.awaited.data.list # <<>>
  /\ SuccessStatus
  /\ ~result.hidden

ShownEntry == attempt.awaited.data.list[1]

Absent(v) == v.t \in {"undefined", "null"} \/ (v.t = "string" /\ v.s = <<>>)

\* a vote count as displayed: 0 when the field is absent
Votes(v) == IF v.t = "number" THEN ToString(v.n) ELSE "0"

\* C11: a displayed entry has the permissive defaults: an empty or absent
\* example reads "Example: none provided.", an empty or absent author reads
\* "Author: unknown", absent vote counts read 0; the entry {word: "foo",
\* definition: "a [thing]", example: "", author: "", thumbs_up: 5} shows
\* the definition "a thing" and "Votes: 5 up / 0 down".
C11_PermissiveDefaults ==
  Shown =>
    /\ Absent(ShownEntry.example) => Str(result.example) = "Example: none provided."
    /\ Absent(ShownEntry.author) => Str(result.author) = "Author: unknown"
    /\ Str(result.votes) = "Votes: " \o Votes(ShownEntry.thumbs_up) \o " up / "
                             \o Votes(ShownEntry.thumbs_down) \o " down"
    /\ (ShownEntry = FooEntry =>
          /\ Str(result.term) = "foo"
          /\ Str(result.definition) = "a thing"
          /\ Str(result.example) = "Example: none provided."
          /\ Str(result.author) = "Author: unknown"
          /\ Str(result.votes) = "Votes: 5 up / 0 down")

C11_Witness ==
  /\ Shown
  /\ ShownEntry = FooEntry
  /\ Str(result.votes) = "Votes: 5 up / 0 down"

\* requests whose fetch() is outstanding
Fetching(q) == Cardinality({k \in 1..Len(q) : q[k].stage = "fetch"})

\* the submit handler has run past validation in this step (a step that
\* ends a handler takes it out of pending or queued; a response that only
\* advances fetchDefinition changes none of these)
Accepted ==
  /\ <<termInput, status, prevClassName, result, attempt>>' #
       <<termInput, status, prevClassName, result, attempt>>
  /\ Len(pending') >= Len(pending)
  /\ Len(queued') >= Len(queued)
  /\ ~AllWhitespace(termInput')
  /\ ~CredentialMissing

\* C12 as stated: every accepted submission issues exactly one GET, a GET
\* is issued only by a step that starts a new attempt, and an attempt ends
\* (with a result, an empty list or a failure) only in the step that removes
\* its one request, which issues none.
C12_OneRequestPerAttempt ==
  [][/\ Len(pending') <= Len(pending) + 1
     /\ Accepted =>
          /\ Len(pending') = Len(pending) + 1
          /\ Fetching(pending') = Fetching(pending) + 1
     /\ (Fetching(pending') > Fetching(pending)) =>
          /\ Len(pending') = Len(pending) + 1
          /\ Fetching(pending') = Fetching(pending) + 1
          /\ attempt'.phase = "pending"
          /\ pending'[Len(pending')] = [term |-> attempt'.term, stage |-> "fetch"]
     /\ (attempt'.phase = "done" /\ attempt' # attempt) =>
          /\ Len(pending') = Len(pending) - 1
          /\ Fetching(pending') <= Fetching(pending)]_vars

\* the term holds a surrogate that is not half of a pair
LoneSurrogate(s) ==
  \E k \in 1..Len(s) :
    \/ s[k] \in HighSurrogates /\ (k = Len(s) \/ s[k + 1] \notin LowSurrogates)
    \/ s[k] \in LowSurrogates /\ (k = 1 \/ s[k - 1] \notin HighSurrogates)

\* C12, amended: an accepted submission issues exactly one GET, except that
\* for a term with a lone surrogate it issues none: its handler is
\* suspended with the trigger disabled and the Searching status, and ends
\* before any provider completion is handled, with the error "Unable to
\* fetch results. URI malformed" and the trigger enabled, issuing nothing.
\* A GET is issued only by a step that starts a new attempt, one per step;
\* a step that removes a request removes one and issues none.
C12_AtMostOneRequestPerAttempt ==
  [][/\ Len(pending') <= Len(pending) + 1
     /\ (Accepted /\ ~LoneSurrogate(termInput')) =>
          /\ Len(pending') = Len(pending) + 1
          /\ Fetching(pending') = Fetching(pending) + 1
          /\ queued' = queued
          /\ attempt'.phase = "pending"
     /\ (Accepted /\ LoneSurrogate(termInput')) =>
          /\ pending' = pending
          /\ queued' = Append(queued, attempt'.term)
          /\ attempt'.phase = "pending"
          /\ btnDisabled'
          /\ Str(status'.message) = "Searching for \"" \o Str(attempt'.term) \o "\"..."
     /\ (Len(queued') < Len(queued)) =>
          /\ pending' = pending
          /\ queued' = Tail(queued)
          /\ attempt'.phase = "done"
          /\ attempt'.term = Head(queued)
          /\ ErrorStatus'
          /\ Str(status'.message) = "Unable to fetch results. URI malformed"
          /\ ~btnDisabled'
     /\ (Fetching(pending') > Fetching(pending)) =>
          /\ Len(pending') = Len(pending) + 1
          /\ Fetching(pending') = Fetching(pending) + 1
          /\ attempt'.phase = "pending"
          /\ pending'[Len(pending')] = [term |-> attempt'.term, stage |-> "fetch"]
     /\ (Len(pending') < Len(pending)) =>
          /\ Len(pending') = Len(pending) - 1
          /\ Fetching(pending') <= Fetching(pending)
          /\ queued = <<>>
          /\ attempt'.phase = "done"]_vars

\* an accepted submission that issued no request has ended: the term cannot
\* be encoded, and an empty submission came between its two stretches
C12_Witness ==
  /\ Done
  /\ LoneSurrogate(attempt.term)
  /\ termInput = <<>>
  /\ termFocused
  /\ attempt.awaited.kind = "rejected"
  /\ Str(status.message) = "Unable to fetch results. URI malformed"
  /\ ~btnDisabled
  /\ pending = <<>>
  /\ queued = <<>>

StatusTypes == {{"status"}, {"status", "error"}, {"status", "success"}}

\* C13: the step that issues a network call leaves the trigger disabled,
\* the status the untyped "Searching for" message of that call's term, and
\* the panel hidden with blank fields.
C13_StateAtIssue ==
  [][(Len(pending') = Len(pending) + 1) =>
       /\ btnDisabled'
       /\ status'.className = {"status"}
       /\ Str(status'.message) =
            "Searching for \"" \o Str(pending'[Len(pending')].term) \o "\"..."
       /\ PanelCleared']_vars

\* a call just issued, after an attempt that left an entry on display
C13_Witness ==
  /\ Len(pending) = 1
  /\ pending[1].stage = "fetch"
  /\ attempt.phase = "pending"
  /\ prevClassName = {"status", "success"}
  /\ termInput = PaddedInput
  /\ PanelCleared
  /\ Str(status.message) = "Searching for \"a\"..."

\* C14: the status carries exactly the message and type of the latest
\* setStatus call: the untyped Searching message once a handler suspended,
\* error after a submission turned down, error or success after a handler
\* ran to its end, success only then; a type of an earlier call never
\* persists.
C14_StatusOverwritten ==
  /\ status.className \in StatusTypes
  /\ (attempt.phase = "pending") =>
       /\ status.className = {"status"}
       /\ Str(status.message) = "Searching for \"" \o Str(attempt.term) \o "\"..."
  /\ (attempt.phase = "rejected") => (status.className = {"status", "error"})
  /\ Done => (status.className \in {{"status", "error"}, {"status", "success"}})
  /\ ("success" \in status.className) => Done

\* the searching status that follows an error status
C14_Witness ==
  /\ attempt.phase = "pending"
  /\ prevClassName = {"status", "error"}
  /\ status.className = {"status"}

\* C15: whenever the panel is visible the status is the success message of
\* the attempt whose first entry is displayed; hence while searching and in
\* every error state the panel is hidden.
C15_VisibleOnlyWithSuccess ==
  /\ ~result.hidden =>
       /\ Shown
       /\ SuccessStatus
       /\ Str(status.message) =
            "Showing first definition for \"" \o Str(attempt.term) \o "\"."
  /\ (ErrorStatus \/ status.className = {"status"}) => result.hidden

\* C16 as stated: a step of the submit handler that ends at validation
\* changes only the status and the result panel: the trigger's disabled
\* flag, the requests in flight, the suspended handlers, the configured key
\* and the focus are as they were.
C16_RejectionFrame ==
  [][(HandlerRan /\ attempt'.phase = "rejected") =>
       /\ btnDisabled' = btnDisabled
       /\ pending' = pending
       /\ queued' = queued
       /\ appConfigKey' = appConfigKey
       /\ termFocused' = termFocused]_vars

\* C16, amended: a step of the submit handler that ends at validation
\* leaves the trigger's disabled flag, the requests in flight, the
\* suspended handlers and the configured key as they were; besides the
\* status and the result panel it changes the focus, which it moves to the
\* text field when the term is empty and leaves alone when the key is
\* missing.
C16_RejectionFrameButFocus ==
  [][(HandlerRan /\ attempt'.phase = "rejected") =>
       /\ btnDisabled' = btnDisabled
       /\ pending' = pending
       /\ queued' = queued
       /\ appConfigKey' = appConfigKey
       /\ termFocused' = (termFocused \/ AllWhitespace(termInput'))]_vars

\* an empty submission turned down while a request is in flight: the trigger
\* is still disabled, the request still there, the focus in the text field
C16_Witness ==
  /\ attempt.phase = "rejected"
  /\ AllWhitespace(termInput)
  /\ PanelCleared
  /\ ErrorStatus
  /\ termFocused
  /\ btnDisabled
  /\ Len(pending) = 1

\* C17: whenever the panel is hidden all five of its fields are blank.
C17_HiddenPanelBlank == result.hidden => PanelBlank

=============================================================================
